---- MODULE Spec2Model ----
(***************************************************************************)
(* A model of the AnCode lexer (src/src/lexer.rs).                         *)
(*                                                                         *)
(* Lexer::lex feeds the source text to consume_char one character at a     *)
(* time and resolves the token in progress when the text is exhausted.     *)
(* Characters are one-character strings, lexemes are sequences of them.    *)
(* The loop of lex is one step per character: the character the iterator   *)
(* yields is drawn from Alphabet, and `source` holds the characters the    *)
(* loop has read so far; the iterator being exhausted is the step LexEnd.  *)
(* Every source text over Alphabet of at most MaxLen characters is         *)
(* therefore lexed from its first character to the value lex returns.      *)
(***************************************************************************)
EXTENDS Integers, Sequences, FiniteSets, TLC

\* The longest source text that is lexed.
MaxLen == 4

\* The characters the source texts are made of, one or more of every class
\* consume_char tells apart: the bits 0 and 1 and the digit 2; the letters b
\* and x (b is a hex digit too), the upper-case hex digit D, the letter g
\* that is no hex digit, and é, alphabetic outside ASCII; the point; the comma,
\* a terminator that begins no token; + (as - and * are handled), / and =;
\* the bracket ( (as ) { } are handled); space, newline, both quotes; and the
\* backslash, which is neither a terminator nor begins a token.
Alphabet ==
    { "0", "1", "2", "b", "x", "D", "g", "é",
      ".", ",", "+", "/", "=", "(",
      " ", "\n", "\"", "'", "\\" }

(***************************************************************************)
(* Character classes                                                       *)
(***************************************************************************)

\* A variant of IsBinDigit that admits the octal digits.
IsBinDigit_Octal(c) == c \in {"0", "1", "2", "3", "4", "5", "6", "7"}

\* "01".contains(current_char)
IsBinDigit(c) == c \in {"0", "1"}

\* "0123456789".contains(current_char), and the pattern '0'..='9'
IsDecDigit(c) == c \in {"0", "1", "2", "3", "4", "5", "6", "7", "8", "9"}

\* "0123456789abcdef".contains(current_char)
IsLowerHexDigit(c) == IsDecDigit(c) \/ c \in {"a", "b", "c", "d", "e", "f"}

\* A variant of IsUpperHexDigit without the check for upper case.
IsUpperHexDigit_Unchecked(c) == FALSE

\* "ABCDEF".contains(current_char)
IsUpperHexDigit(c) == c \in {"A", "B", "C", "D", "E", "F"}

\* The pattern 'a'..='z' | 'A'..='Z'
IsAsciiLetter(c) ==
    c \in { "a", "b", "c", "d", "e", "f", "g", "h", "i", "j", "k", "l", "m",
            "n", "o", "p", "q", "r", "s", "t", "u", "v", "w", "x", "y", "z",
            "A", "B", "C", "D", "E", "F", "G", "H", "I", "J", "K", "L", "M",
            "N", "O", "P", "Q", "R", "S", "T", "U", "V", "W", "X", "Y", "Z" }

\* char::is_alphabetic: the Unicode property Alphabetic, which holds of the
\* ASCII letters and of letters outside ASCII (here: é).
is_alphabetic(c) == IsAsciiLetter(c) \/ c \in {"é"}

TerminatorChars ==
    { "+", "-", "*", "/", "!", "\"", "%", "^", "&", "(", ")", "{", "}",
      "[", "]", ".", ",", "|", ":", ";", " ", "\n" }

is_literal_terminator(current_char) == current_char \in TerminatorChars

(***************************************************************************)
(* TokenType, Operator, LexErrorType                                       *)
(***************************************************************************)

\* Option<TokenType>::None
None == "None"

DecimalLiteral(has_decimal_point) ==
    IF has_decimal_point THEN "DecimalLiteral(true)" ELSE "DecimalLiteral(false)"

StringLiteral(next_char_escaped) ==
    IF next_char_escaped THEN "StringLiteral(true)" ELSE "StringLiteral(false)"

OperatorOf(op) ==
    CASE op = "Plus" -> "Operator(Plus)"
      [] op = "Minus" -> "Operator(Minus)"
      [] op = "Multiply" -> "Operator(Multiply)"
      [] op = "Divide" -> "Operator(Divide)"
      [] op = "Equals" -> "Operator(Equals)"

TokenType ==
    { "BinLiteral", "HexLiteral", DecimalLiteral(FALSE), DecimalLiteral(TRUE),
      StringLiteral(FALSE), StringLiteral(TRUE),
      OperatorOf("Plus"), OperatorOf("Minus"), OperatorOf("Multiply"),
      OperatorOf("Divide"), OperatorOf("Equals"),
      "LineComment", "LeftParen", "RightParen", "LeftBrace", "RightBrace",
      "Equals", "Identifier", "Whitespace", "Newline", "EndOfFile" }

LexErrorType ==
    { "WrongQuotes", "MalformedBinLiteral", "WrongHexCase", "MalformedHexLiteral",
      "MalformedDecLiteral", "MultipleDecimalPoints", "UnexpectedCharacter",
      "TrailingDPoint", "EmptyBinLiteral", "EmptyHexLiteral",
      "UnexpectedEOFString", "MissingTrailingNewLine" }

(***************************************************************************)
(* Token, LexError, Lexer                                                  *)
(***************************************************************************)

Token(token_type, value, start_line, end_line, start_index, end_index) ==
    [ token_type |-> token_type, value |-> value,
      start_line |-> start_line, end_line |-> end_line,
      start_index |-> start_index, end_index |-> end_index ]

\* The value of the error field where no error was raised.
NoError ==
    [ error_type |-> "NoError", partial_token |-> <<>>,
      start_line |-> 0, end_line |-> 0, start_index |-> 0, end_index |-> 0 ]

\* Lexer::new. current_char is an Option<char>: <<>> is None, <<c>> is Some(c).
\* panicked records that an expect or a panic! was reached.
Lexer_new ==
    [ full_tokens |-> <<>>,
      partial_token |-> <<>>,
      current_char |-> <<>>,
      proposed_token_type |-> None,
      start_line |-> 1,
      end_line |-> 1,
      start_index |-> 0,
      end_index |-> 0,
      panicked |-> FALSE ]

\* The last character of a string that is not empty: chars().last().unwrap()
LastChar(s) == s[Len(s)]

\* char::default, what current_char.unwrap_or_default() gives for None.
DefaultChar == "NUL"

unwrap_or_default(opt) == IF opt = <<>> THEN DefaultChar ELSE opt[1]

(***************************************************************************)
(* push_token, push_char, construct_error                                  *)
(***************************************************************************)

\* A variant of push_token that moves the start line and not the start column.
push_token_KeepsStart(self) ==
    IF self.proposed_token_type = None
    THEN [self EXCEPT !.panicked = TRUE]
    ELSE [self EXCEPT
            !.full_tokens = Append(@,
                Token(self.proposed_token_type, self.partial_token,
                      self.start_line, self.end_line,
                      self.start_index, self.end_index)),
            !.partial_token = <<>>,
            !.start_line = self.end_line,
            !.proposed_token_type = None]

\* A variant of push_token that starts the token list again from the new
\* token.
push_token_DropsEarlier(self) ==
    IF self.proposed_token_type = None
    THEN [self EXCEPT !.panicked = TRUE]
    ELSE [self EXCEPT
            !.full_tokens = <<Token(self.proposed_token_type, self.partial_token,
                                    self.start_line, self.end_line,
                                    self.start_index, self.end_index)>>,
            !.partial_token = <<>>,
            !.start_line = self.end_line,
            !.start_index = self.end_index,
            !.proposed_token_type = None]

push_token(self) ==
    IF self.proposed_token_type = None
    THEN [self EXCEPT !.panicked = TRUE]
    ELSE [self EXCEPT
            !.full_tokens = Append(@,
                Token(self.proposed_token_type, self.partial_token,
                      self.start_line, self.end_line,
                      self.start_index, self.end_index)),
            !.partial_token = <<>>,
            !.start_line = self.end_line,
            !.start_index = self.end_index,
            !.proposed_token_type = None]

\* A variant of push_char that moves to the next column after a newline as
\* after any other character.
push_char_KeepsColumn(self, c) ==
    IF c = "\n"
    THEN [self EXCEPT !.partial_token = Append(@, c),
                      !.end_line = @ + 1,
                      !.end_index = @ + 1]
    ELSE [self EXCEPT !.partial_token = Append(@, c),
                      !.end_index = @ + 1]

push_char(self, c) ==
    IF c = "\n"
    THEN [self EXCEPT !.partial_token = Append(@, c),
                      !.end_line = @ + 1,
                      !.end_index = 0]
    ELSE [self EXCEPT !.partial_token = Append(@, c),
                      !.end_index = @ + 1]

\* A variant of construct_error that gives the end column as the start
\* column and the start column as the end column.
construct_error_SwapsColumns(self, e_type) ==
    [ error_type |-> e_type, partial_token |-> self.partial_token,
      start_line |-> self.start_line, end_line |-> self.end_line,
      start_index |-> self.end_index, end_index |-> self.start_index ]

construct_error(self, e_type) ==
    [ error_type |-> e_type, partial_token |-> self.partial_token,
      start_line |-> self.start_line, end_line |-> self.end_line,
      start_index |-> self.start_index, end_index |-> self.end_index ]

(***************************************************************************)
(* What a call of consume_char gives: the lexer it leaves, Ok(()) or       *)
(* Err(error) (or a panic), and how many calls of consume_char were made   *)
(* for the character.                                                      *)
(***************************************************************************)

Ok(self) ==
    [ lexer |-> self, status |-> IF self.panicked THEN "Panic" ELSE "Ok",
      error |-> NoError, depth |-> 1 ]

Err(self, lex_error) ==
    [ lexer |-> self, status |-> "Err", error |-> lex_error, depth |-> 1 ]

Panic(self) ==
    [ lexer |-> [self EXCEPT !.panicked = TRUE], status |-> "Panic",
      error |-> NoError, depth |-> 1 ]

\* return Err(self.construct_error(e_type))
ErrBare(self, e_type) == Err(self, construct_error(self, e_type))

\* A variant of construct_error_w_char that pushes the current character
\* through push_char.
construct_error_w_char_Advances(self, e_type) ==
    LET pushed == push_char(self, unwrap_or_default(self.current_char))
    IN  Err(pushed, construct_error(pushed, e_type))

\* construct_error_w_char pushes the current character onto the partial
\* token (not through push_char: the end position stays) and builds the error.
construct_error_w_char(self, e_type) ==
    LET pushed == [self EXCEPT !.partial_token =
                        Append(@, unwrap_or_default(self.current_char))]
    IN  Err(pushed, construct_error(pushed, e_type))

(***************************************************************************)
(* consume_char: one branch per tentative kind                             *)
(***************************************************************************)

RECURSIVE consume_char(_, _)

\* self.push_token(); return self.consume_char(current_char);
FinalizeAndRedispatch(self, current_char) ==
    LET pushed == push_token(self)
    IN  IF pushed.panicked
        THEN Panic(pushed)
        ELSE LET inner == consume_char(pushed, current_char)
             IN  [inner EXCEPT !.depth = @ + 1]

\* A variant of ExtendAndFinalize that proposes the kind and leaves the
\* token in progress.
ExtendAndFinalize_LeavesTentative(self, current_char, token_type) ==
    Ok([push_char(self, current_char) EXCEPT !.proposed_token_type = token_type])

\* An arm of the None branch that pushes the character, proposes a kind and
\* finalizes the token at once.
ExtendAndFinalize(self, current_char, token_type) ==
    Ok(push_token([push_char(self, current_char)
                      EXCEPT !.proposed_token_type = token_type]))

\* An arm of the None branch that pushes the character and proposes a kind.
ExtendAndPropose(self, current_char, token_type) ==
    Ok([push_char(self, current_char) EXCEPT !.proposed_token_type = token_type])

\* A variant of consume_BinLiteral that finalizes the literal at a
\* terminator whatever the buffer ends in.
consume_BinLiteral_AllowsEmpty(self, current_char) ==
    IF IsBinDigit(current_char)
    THEN Ok(push_char(self, current_char))
    ELSE IF is_literal_terminator(current_char)
    THEN FinalizeAndRedispatch(self, current_char)
    ELSE construct_error_w_char(self, "MalformedBinLiteral")

consume_BinLiteral(self, current_char) ==
    IF IsBinDigit(current_char)
    THEN Ok(push_char(self, current_char))
    ELSE IF is_literal_terminator(current_char)
    THEN IF LastChar(self.partial_token) = "b"
         THEN construct_error_w_char(self, "EmptyBinLiteral")
         ELSE FinalizeAndRedispatch(self, current_char)
    ELSE construct_error_w_char(self, "MalformedBinLiteral")

consume_HexLiteral(self, current_char) ==
    IF IsLowerHexDigit(current_char)
    THEN Ok(push_char(self, current_char))
    ELSE IF IsUpperHexDigit(current_char)
    THEN construct_error_w_char(self, "WrongHexCase")
    ELSE IF is_literal_terminator(current_char)
    THEN IF LastChar(self.partial_token) = "x"
         THEN ErrBare(self, "EmptyHexLiteral")
         ELSE FinalizeAndRedispatch(self, current_char)
    ELSE construct_error_w_char(self, "MalformedHexLiteral")

\* A variant of consume_DecimalLiteral that tests for a terminator before it
\* tests for the decimal point.
consume_DecimalLiteral_TerminatorFirst(self, current_char, has_decimal_point) ==
    IF self.partial_token = <<"0">> /\ current_char = "b"
    THEN Ok(push_char([self EXCEPT !.proposed_token_type = "BinLiteral"],
                      current_char))
    ELSE IF self.partial_token = <<"0">> /\ current_char = "x"
    THEN Ok(push_char([self EXCEPT !.proposed_token_type = "HexLiteral"],
                      current_char))
    ELSE IF IsDecDigit(current_char)
    THEN Ok(push_char(self, current_char))
    ELSE IF is_literal_terminator(current_char)
            /\ LastChar(self.partial_token) = "."
    THEN construct_error_w_char(self, "TrailingDPoint")
    ELSE IF current_char = "."
    THEN IF has_decimal_point
         THEN construct_error_w_char(self, "MultipleDecimalPoints")
         ELSE Ok(push_char([self EXCEPT !.proposed_token_type =
                                            DecimalLiteral(TRUE)],
                           current_char))
    ELSE IF is_literal_terminator(current_char)
    THEN FinalizeAndRedispatch(self, current_char)
    ELSE construct_error_w_char(self, "MalformedDecLiteral")

\* A variant of consume_DecimalLiteral that pushes the decimal point without
\* proposing DecimalLiteral(true).
consume_DecimalLiteral_PointKeepsKind(self, current_char, has_decimal_point) ==
    IF self.partial_token = <<"0">> /\ current_char = "b"
    THEN Ok(push_char([self EXCEPT !.proposed_token_type = "BinLiteral"],
                      current_char))
    ELSE IF self.partial_token = <<"0">> /\ current_char = "x"
    THEN Ok(push_char([self EXCEPT !.proposed_token_type = "HexLiteral"],
                      current_char))
    ELSE IF IsDecDigit(current_char)
    THEN Ok(push_char(self, current_char))
    ELSE IF current_char = "."
    THEN IF has_decimal_point
         THEN construct_error_w_char(self, "MultipleDecimalPoints")
         ELSE Ok(push_char(self, current_char))
    ELSE IF is_literal_terminator(current_char)
    THEN IF LastChar(self.partial_token) = "."
         THEN construct_error_w_char(self, "TrailingDPoint")
         ELSE FinalizeAndRedispatch(self, current_char)
    ELSE construct_error_w_char(self, "MalformedDecLiteral")

\* A variant of consume_DecimalLiteral that switches to BinLiteral or
\* HexLiteral whenever the buffer ends in 0.
consume_DecimalLiteral_SwitchAfterAnyZero(self, current_char, has_decimal_point) ==
    IF LastChar(self.partial_token) = "0" /\ current_char = "b"
    THEN Ok(push_char([self EXCEPT !.proposed_token_type = "BinLiteral"],
                      current_char))
    ELSE IF LastChar(self.partial_token) = "0" /\ current_char = "x"
    THEN Ok(push_char([self EXCEPT !.proposed_token_type = "HexLiteral"],
                      current_char))
    ELSE IF IsDecDigit(current_char)
    THEN Ok(push_char(self, current_char))
    ELSE IF current_char = "."
    THEN IF has_decimal_point
         THEN construct_error_w_char(self, "MultipleDecimalPoints")
         ELSE Ok(push_char([self EXCEPT !.proposed_token_type =
                                             DecimalLiteral(TRUE)],
                           current_char))
    ELSE IF is_literal_terminator(current_char)
    THEN IF LastChar(self.partial_token) = "."
         THEN construct_error_w_char(self, "TrailingDPoint")
         ELSE FinalizeAndRedispatch(self, current_char)
    ELSE construct_error_w_char(self, "MalformedDecLiteral")

consume_DecimalLiteral(self, current_char, has_decimal_point) ==
    IF self.partial_token = <<"0">> /\ current_char = "b"
    THEN Ok(push_char([self EXCEPT !.proposed_token_type = "BinLiteral"],
                      current_char))
    ELSE IF self.partial_token = <<"0">> /\ current_char = "x"
    THEN Ok(push_char([self EXCEPT !.proposed_token_type = "HexLiteral"],
                      current_char))
    ELSE IF IsDecDigit(current_char)
    THEN Ok(push_char(self, current_char))
    ELSE IF current_char = "."
    THEN IF has_decimal_point
         THEN construct_error_w_char(self, "MultipleDecimalPoints")
         ELSE Ok(push_char([self EXCEPT !.proposed_token_type =
                                            DecimalLiteral(TRUE)],
                           current_char))
    ELSE IF is_literal_terminator(current_char)
    THEN IF LastChar(self.partial_token) = "."
         THEN construct_error_w_char(self, "TrailingDPoint")
         ELSE FinalizeAndRedispatch(self, current_char)
    ELSE construct_error_w_char(self, "MalformedDecLiteral")

\* A variant of consume_StringLiteral that rejects a single quote as the
\* None branch does.
consume_StringLiteral_RejectsSingleQuote(self, current_char, escaped) ==
    IF current_char = "'"
    THEN construct_error_w_char(self, "WrongQuotes")
    ELSE IF current_char = "\"" /\ ~escaped
    THEN Ok(push_token(push_char(self, current_char)))
    ELSE Ok(push_char(self, current_char))

\* A variant of consume_StringLiteral that sets the flag on a backslash and
\* lets the character after it extend the buffer.
consume_StringLiteral_Escapes(self, current_char, escaped) ==
    IF escaped
    THEN Ok(push_char([self EXCEPT !.proposed_token_type = StringLiteral(FALSE)],
                      current_char))
    ELSE IF current_char = "\""
    THEN Ok(push_token(push_char(self, current_char)))
    ELSE IF current_char = "\\"
    THEN Ok(push_char([self EXCEPT !.proposed_token_type = StringLiteral(TRUE)],
                      current_char))
    ELSE Ok(push_char(self, current_char))

consume_StringLiteral(self, current_char, escaped) ==
    IF current_char = "\"" /\ ~escaped
    THEN Ok(push_token(push_char(self, current_char)))
    ELSE Ok(push_char(self, current_char))

\* A variant of consume_LineComment that takes the newline into the comment
\* before finalizing it.
consume_LineComment_KeepsNewline(self, current_char) ==
    IF current_char = "\n"
    THEN Ok(push_token(push_char(self, current_char)))
    ELSE Ok(push_char(self, current_char))

consume_LineComment(self, current_char) ==
    IF current_char = "\n"
    THEN FinalizeAndRedispatch(self, current_char)
    ELSE Ok(push_char(self, current_char))

\* A variant of consume_Operator that turns the tentative Divide into a
\* LineComment without pushing the second slash.
consume_Operator_DropsSlash(self, current_char, op) ==
    IF op = "Divide"
    THEN IF current_char = "/"
         THEN Ok([self EXCEPT !.proposed_token_type = "LineComment"])
         ELSE FinalizeAndRedispatch(self, current_char)
    ELSE Panic(self)

consume_Operator(self, current_char, op) ==
    IF op = "Divide"
    THEN IF current_char = "/"
         THEN Ok(push_char([self EXCEPT !.proposed_token_type = "LineComment"],
                           current_char))
         ELSE FinalizeAndRedispatch(self, current_char)
    ELSE Panic(self)

\* A variant of consume_Whitespace that finalizes the Whitespace token at
\* every character.
consume_Whitespace_OneSpace(self, current_char) ==
    FinalizeAndRedispatch(self, current_char)

\* A variant of consume_Whitespace that reads a further space without
\* pushing it.
consume_Whitespace_SkipsSpaces(self, current_char) ==
    IF current_char = " "
    THEN Ok(self)
    ELSE FinalizeAndRedispatch(self, current_char)

\* A variant of consume_Whitespace that hands a character other than a space
\* to the Identifier branch instead of finalizing the Whitespace token.
consume_Whitespace_ViaIdentifier(self, current_char) ==
    IF current_char = " "
    THEN Ok(push_char(self, current_char))
    ELSE LET inner == consume_char([self EXCEPT !.proposed_token_type = "Identifier"],
                                   current_char)
         IN  [inner EXCEPT !.depth = @ + 1]

consume_Whitespace(self, current_char) ==
    IF current_char = " "
    THEN Ok(push_char(self, current_char))
    ELSE FinalizeAndRedispatch(self, current_char)

\* A variant of consume_Identifier that extends on digits as well.
consume_Identifier_Alphanumeric(self, current_char) ==
    IF is_alphabetic(current_char) \/ IsDecDigit(current_char)
    THEN Ok(push_char(self, current_char))
    ELSE FinalizeAndRedispatch(self, current_char)

\* A variant of consume_Identifier that finalizes the token without
\* dispatching the character that ended it.
consume_Identifier_DropsNext(self, current_char) ==
    IF is_alphabetic(current_char)
    THEN Ok(push_char(self, current_char))
    ELSE Ok(push_token(self))

consume_Identifier(self, current_char) ==
    IF is_alphabetic(current_char)
    THEN Ok(push_char(self, current_char))
    ELSE FinalizeAndRedispatch(self, current_char)

\* A variant of consume_Equals that finalizes the pair of = signs without
\* proposing Operator(Equals).
consume_Equals_KeepsKind(self, current_char) ==
    IF current_char = "="
    THEN Ok(push_token(push_char(self, current_char)))
    ELSE FinalizeAndRedispatch(self, current_char)

consume_Equals(self, current_char) ==
    IF current_char = "="
    THEN Ok(push_token(push_char(
                [self EXCEPT !.proposed_token_type = OperatorOf("Equals")],
                current_char)))
    ELSE FinalizeAndRedispatch(self, current_char)

consume_None(self, current_char) ==
    CASE IsDecDigit(current_char) ->
            ExtendAndPropose(self, current_char, DecimalLiteral(FALSE))
      [] current_char = "\"" ->
            ExtendAndPropose(self, current_char, StringLiteral(FALSE))
      [] current_char = "'" -> construct_error_w_char(self, "WrongQuotes")
      [] current_char = "+" ->
            ExtendAndFinalize(self, current_char, OperatorOf("Plus"))
      [] current_char = "-" ->
            ExtendAndFinalize(self, current_char, OperatorOf("Minus"))
      [] current_char = "*" ->
            ExtendAndFinalize(self, current_char, OperatorOf("Multiply"))
      [] current_char = "/" ->
            ExtendAndPropose(self, current_char, OperatorOf("Divide"))
      [] current_char = "(" -> ExtendAndFinalize(self, current_char, "LeftParen")
      [] current_char = ")" -> ExtendAndFinalize(self, current_char, "RightParen")
      [] current_char = "{" -> ExtendAndFinalize(self, current_char, "LeftBrace")
      [] current_char = "}" -> ExtendAndFinalize(self, current_char, "RightBrace")
      [] IsAsciiLetter(current_char) ->
            ExtendAndPropose(self, current_char, "Identifier")
      [] current_char = " " -> ExtendAndPropose(self, current_char, "Whitespace")
      [] current_char = "\n" -> ExtendAndFinalize(self, current_char, "Newline")
      [] current_char = "=" -> ExtendAndPropose(self, current_char, "Equals")
      [] OTHER -> construct_error_w_char(self, "UnexpectedCharacter")

consume_char(self0, current_char) ==
    LET self == [self0 EXCEPT !.current_char = <<current_char>>]
        kind == self.proposed_token_type
    IN  CASE kind = "BinLiteral" -> consume_BinLiteral(self, current_char)
          [] kind = "HexLiteral" -> consume_HexLiteral(self, current_char)
          [] kind = DecimalLiteral(FALSE) ->
                consume_DecimalLiteral(self, current_char, FALSE)
          [] kind = DecimalLiteral(TRUE) ->
                consume_DecimalLiteral(self, current_char, TRUE)
          [] kind = StringLiteral(FALSE) ->
                consume_StringLiteral(self, current_char, FALSE)
          [] kind = StringLiteral(TRUE) ->
                consume_StringLiteral(self, current_char, TRUE)
          [] kind = "LineComment" -> consume_LineComment(self, current_char)
          [] kind = OperatorOf("Plus") -> consume_Operator(self, current_char, "Plus")
          [] kind = OperatorOf("Minus") -> consume_Operator(self, current_char, "Minus")
          [] kind = OperatorOf("Multiply") ->
                consume_Operator(self, current_char, "Multiply")
          [] kind = OperatorOf("Divide") ->
                consume_Operator(self, current_char, "Divide")
          [] kind = OperatorOf("Equals") ->
                consume_Operator(self, current_char, "Equals")
          [] kind = "Whitespace" -> consume_Whitespace(self, current_char)
          [] kind = "Identifier" -> consume_Identifier(self, current_char)
          [] kind = "Equals" -> consume_Equals(self, current_char)
          [] kind \in {"LeftBrace", "RightBrace", "LeftParen", "RightParen",
                       "Newline", "EndOfFile"} -> Panic(self)
          [] kind = None -> consume_None(self, current_char)

(***************************************************************************)
(* Lexer::lex                                                              *)
(***************************************************************************)

\* What lex has returned: nothing yet ("Pending"), Ok(full_tokens) or
\* Err(lex_error). An Err holds no tokens.
Pending == [status |-> "Pending", tokens |-> <<>>, error |-> NoError]

ReturnOk(tokens) == [status |-> "Ok", tokens |-> tokens, error |-> NoError]

ReturnErr(lex_error) == [status |-> "Err", tokens |-> <<>>, error |-> lex_error]

\* A variant of lex_iteration that drops the Err and goes on with the loop.
lex_iteration_DropsErr(self, current_char) ==
    LET outcome == consume_char(self, current_char)
    IN  CASE outcome.status \in {"Ok", "Err"} ->
                [lexer |-> outcome.lexer, pc |-> "lexing", result |-> Pending,
                 depth |-> outcome.depth]
          [] outcome.status = "Panic" ->
                [lexer |-> outcome.lexer, pc |-> "panicked", result |-> Pending,
                 depth |-> outcome.depth]

\* One iteration of `for current_char in source.chars()`: the match on
\* consume_char's result, which returns from lex on Err.
lex_iteration(self, current_char) ==
    LET outcome == consume_char(self, current_char)
    IN  CASE outcome.status = "Ok" ->
                [lexer |-> outcome.lexer, pc |-> "lexing", result |-> Pending,
                 depth |-> outcome.depth]
          [] outcome.status = "Err" ->
                [lexer |-> outcome.lexer, pc |-> "returned",
                 result |-> ReturnErr(outcome.error), depth |-> outcome.depth]
          [] outcome.status = "Panic" ->
                [lexer |-> outcome.lexer, pc |-> "panicked", result |-> Pending,
                 depth |-> outcome.depth]

\* A variant of lex_end_of_input that returns the tokens without an EndOfFile.
lex_end_of_input_NoEndOfFile(self) ==
    CASE self.proposed_token_type \in {StringLiteral(FALSE), StringLiteral(TRUE)} ->
            [lexer |-> self, pc |-> "returned",
             result |-> ReturnErr(construct_error(self, "UnexpectedEOFString"))]
      [] self.proposed_token_type = None ->
            [lexer |-> self, pc |-> "returned",
             result |-> ReturnOk(self.full_tokens)]
      [] OTHER ->
            [lexer |-> self, pc |-> "returned",
             result |-> ReturnErr(construct_error(self, "MissingTrailingNewLine"))]

\* A variant of lex_end_of_input without the arm for an open string.
lex_end_of_input_NoStringArm(self) ==
    CASE self.proposed_token_type = None ->
            LET pushed == push_token([self EXCEPT
                                         !.proposed_token_type = "EndOfFile"])
            IN  [lexer |-> pushed, pc |-> "returned",
                 result |-> ReturnOk(pushed.full_tokens)]
      [] OTHER ->
            [lexer |-> self, pc |-> "returned",
             result |-> ReturnErr(construct_error(self, "MissingTrailingNewLine"))]

\* A variant of lex_end_of_input that finalizes the token in progress
\* instead of rejecting it.
lex_end_of_input_FinalizesPartial(self) ==
    CASE self.proposed_token_type \in {StringLiteral(FALSE), StringLiteral(TRUE)} ->
            [lexer |-> self, pc |-> "returned",
             result |-> ReturnErr(construct_error(self, "UnexpectedEOFString"))]
      [] OTHER ->
            LET flushed == IF self.proposed_token_type = None
                           THEN self ELSE push_token(self)
                pushed == push_token([flushed EXCEPT
                                         !.proposed_token_type = "EndOfFile"])
            IN  [lexer |-> pushed, pc |-> "returned",
                 result |-> ReturnOk(pushed.full_tokens)]

\* The code of lex after the loop: "partial token followed by EOF".
lex_end_of_input(self) ==
    CASE self.proposed_token_type \in {StringLiteral(FALSE), StringLiteral(TRUE)} ->
            [lexer |-> self, pc |-> "returned",
             result |-> ReturnErr(construct_error(self, "UnexpectedEOFString"))]
      [] self.proposed_token_type = None ->
            LET pushed == push_token([self EXCEPT
                                         !.proposed_token_type = "EndOfFile"])
            IN  [lexer |-> pushed, pc |-> "returned",
                 result |-> ReturnOk(pushed.full_tokens)]
      [] OTHER ->
            [lexer |-> self, pc |-> "returned",
             result |-> ReturnErr(construct_error(self, "MissingTrailingNewLine"))]

\* Lexer::lex on a whole source text: the loop from the i-th character on,
\* then the code after the loop. A panic returns nothing (Pending).
RECURSIVE lex_from(_, _, _)
lex_from(self, source_text, i) ==
    IF i > Len(source_text)
    THEN lex_end_of_input(self).result
    ELSE LET iteration == lex_iteration(self, source_text[i])
         IN  IF iteration.pc = "lexing"
             THEN lex_from(iteration.lexer, source_text, i + 1)
             ELSE iteration.result

\* Lexer::new(file).lex(source_text)
lex(source_text) == lex_from(Lexer_new, source_text, 1)

(***************************************************************************)
(* Display for LexError                                                    *)
(***************************************************************************)

\* file_contents.lines().count(): the lines end at the newlines, and the
\* text after the last newline is one more line unless it is empty.
lines_count(file_contents) ==
    Cardinality({i \in 1..Len(file_contents) : file_contents[i] = "\n"})
        + (IF file_contents # <<>> /\ LastChar(file_contents) # "\n" THEN 1 ELSE 0)

\* fmt panics: start_line - 1 underflows; or, for an error on one line,
\* nth(start_line - 1) is None and is unwrapped, or end_index - start_index
\* underflows; or, for an error on several lines, end_line - start_line
\* underflows.
fmt_panics(self, file_contents) ==
    \/ self.start_line < 1
    \/ /\ self.start_line = self.end_line
       /\ \/ self.start_line - 1 >= lines_count(file_contents)
          \/ self.end_index < self.start_index
    \/ /\ self.start_line # self.end_line
       /\ self.end_line < self.start_line

(***************************************************************************)
(* The state machine                                                       *)
(***************************************************************************)

VARIABLES
    lexer,    \* the Lexer that lex consumes
    source,   \* the characters of the source text read so far
    pc,       \* "lexing" in the loop of lex, "returned", or "panicked"
    result,   \* what lex returned
    depth     \* calls of consume_char made for the last character

vars == <<lexer, source, pc, result, depth>>

Init ==
    /\ lexer = Lexer_new
    /\ source = <<>>
    /\ pc = "lexing"
    /\ result = Pending
    /\ depth = 0

\* The loop reads the next character of the source text.
LexChar ==
    /\ pc = "lexing"
    /\ Len(source) < MaxLen
    /\ \E current_char \in Alphabet :
          \E next \in {lex_iteration(lexer, current_char)} :
              /\ source' = Append(source, current_char)
              /\ lexer' = next.lexer
              /\ pc' = next.pc
              /\ result' = next.result
              /\ depth' = next.depth

\* The source text is exhausted.
LexEnd ==
    /\ pc = "lexing"
    /\ \E next \in {lex_end_of_input(lexer)} :
           /\ lexer' = next.lexer
           /\ pc' = next.pc
           /\ result' = next.result
    /\ UNCHANGED <<source, depth>>

Next == LexChar \/ LexEnd

Spec == Init /\ [][Next]_vars

(***************************************************************************)
(* Properties                                                              *)
(***************************************************************************)

\* lex returned Ok(tokens).
Accepted == pc = "returned" /\ result.status = "Ok"

\* lex returned Err(error).
Rejected == pc = "returned" /\ result.status = "Err"

StartOf(t) == <<t.start_line, t.start_index>>

EndOf(t) == <<t.end_line, t.end_index>>

\* Position p is not after position q.
NotAfter(p, q) == p[1] < q[1] \/ (p[1] = q[1] /\ p[2] <= q[2])

\* The errors lex raises itself when the source text is exhausted.
EndOfInputErrors == {"UnexpectedEOFString", "MissingTrailingNewLine"}

\* The step of lex that reads character c.
CharStep(c) == pc = "lexing" /\ source' = Append(source, c)

\* The step of lex that finds the source text exhausted.
EndStep == pc = "lexing" /\ pc' # "lexing" /\ source' = source

\* C1: for every accepted input the first token starts at line 1, column 0
\* and every later token starts where the token before it ends; no token
\* ends before it starts, so the spans leave no gap and do not overlap.
C1_ContiguousSpans ==
    Accepted =>
        LET ts == result.tokens
        IN  /\ Len(ts) >= 1
            /\ StartOf(ts[1]) = <<1, 0>>
            /\ \A i \in 2..Len(ts) : StartOf(ts[i]) = EndOf(ts[i - 1])
            /\ \A i \in 1..Len(ts) : NotAfter(StartOf(ts[i]), EndOf(ts[i]))

\* An accepted input of several tokens, one of which crosses a line and one
\* of which starts inside a line.
C1_Witness ==
    /\ Accepted
    /\ Len(result.tokens) >= 4
    /\ \E i \in 1..Len(result.tokens) :
          result.tokens[i].end_line > result.tokens[i].start_line
    /\ \E i \in 1..Len(result.tokens) : result.tokens[i].start_index > 0

\* C2: every accepted input, the empty one included, gives a token sequence
\* with exactly one EndOfFile token, which is the last one, has an empty
\* lexeme and a zero-width span at the end of the token before it (at line
\* 1, column 0 when there is none).
C2_EndOfFileLast ==
    Accepted =>
        LET ts == result.tokens
            n == Len(ts)
        IN  /\ n >= 1
            /\ ts[n].token_type = "EndOfFile"
            /\ \A i \in 1..(n - 1) : ts[i].token_type # "EndOfFile"
            /\ ts[n].value = <<>>
            /\ StartOf(ts[n]) = EndOf(ts[n])
            /\ StartOf(ts[n]) = IF n = 1 THEN <<1, 0>> ELSE EndOf(ts[n - 1])
            /\ n = 1 <=> source = <<>>

\* An accepted input that is not empty: the EndOfFile follows other tokens
\* and lies beyond line 1, column 0.
C2_Witness ==
    /\ Accepted
    /\ Len(result.tokens) >= 3
    /\ result.tokens[Len(result.tokens)].token_type = "EndOfFile"
    /\ StartOf(result.tokens[Len(result.tokens)]) # <<1, 0>>

\* C3: when the source text is exhausted, the tentative kind alone decides
\* what lex returns: StringLiteral gives UnexpectedEOFString, None gives the
\* tokens ending in EndOfFile, and every other kind, which is one of
\* DecimalLiteral, BinLiteral, HexLiteral, Identifier, Whitespace, the
\* tentative Divide, the tentative Equals and LineComment, gives
\* MissingTrailingNewLine.
C3_EndOfInputByKind ==
    [][EndStep =>
        LET kind == lexer.proposed_token_type
        IN  /\ pc' = "returned"
            /\ kind \in {"StringLiteral(false)", "StringLiteral(true)"} =>
                  /\ result'.status = "Err"
                  /\ result'.error.error_type = "UnexpectedEOFString"
            /\ kind = "None" =>
                  /\ result'.status = "Ok"
                  /\ Len(result'.tokens) >= 1
                  /\ result'.tokens[Len(result'.tokens)].token_type = "EndOfFile"
            /\ kind \notin {"StringLiteral(false)", "StringLiteral(true)", "None"} =>
                  /\ result'.status = "Err"
                  /\ result'.error.error_type = "MissingTrailingNewLine"
                  /\ kind \in {"DecimalLiteral(false)", "DecimalLiteral(true)",
                               "BinLiteral", "HexLiteral", "Identifier",
                               "Whitespace", "Operator(Divide)", "Equals",
                               "LineComment"}
    ]_vars

\* The source text ended inside a line comment.
C3_Witness ==
    /\ Rejected
    /\ result.error.error_type = "MissingTrailingNewLine"
    /\ lexer.proposed_token_type = "LineComment"

\* C4: errors are terminal. A character whose dispatch fails makes lex
\* return that error and nothing else: no token comes with it, no later
\* character is dispatched, no end-of-input error replaces it (a source text
\* that opens with a single quote reports WrongQuotes at that quote), and
\* nothing happens once lex has returned.
C4_ErrorsTerminal ==
    [][/\ pc # "lexing" => UNCHANGED vars
       /\ \A c \in Alphabet :
             (CharStep(c) /\ consume_char(lexer, c).status = "Err") =>
                /\ pc' = "returned"
                /\ result'.status = "Err"
                /\ result'.error = consume_char(lexer, c).error
                /\ result'.error.error_type \notin EndOfInputErrors
                /\ result'.tokens = <<>>
       /\ (pc' = "returned" /\ result'.status = "Err") =>
             /\ result'.tokens = <<>>
             /\ result'.error.error_type \notin EndOfInputErrors =>
                   lexer'.current_char = <<LastChar(source')>>
       /\ (pc' # "lexing" /\ source' # <<>> /\ source'[1] = "'") =>
             /\ Len(source') = 1
             /\ pc' = "returned"
             /\ result'.status = "Err"
             /\ result'.error.error_type = "WrongQuotes"
    ]_vars

\* An error raised in the middle of a source text, after tokens had been
\* finalized.
C4_Witness ==
    /\ Rejected
    /\ result.error.error_type = "WrongQuotes"
    /\ Len(lexer.full_tokens) >= 2
    /\ result.tokens = <<>>

\* The characters that make up the operators of the language.
OperatorChars == {"+", "-", "*", "/", "="}

\* One or more digits, optionally followed by a point and one or more digits.
IsDecimalLexeme(s) ==
    /\ Len(s) >= 1
    /\ \A i \in 1..Len(s) : IsDecDigit(s[i]) \/ s[i] = "."
    /\ Cardinality({i \in 1..Len(s) : s[i] = "."}) <= 1
    /\ s[1] # "."
    /\ s[Len(s)] # "."

\* 0b followed by one or more of 0 and 1.
IsBinLexeme(s) ==
    /\ Len(s) >= 3
    /\ s[1] = "0"
    /\ s[2] = "b"
    /\ \A i \in 3..Len(s) : s[i] \in {"0", "1"}

\* 0x followed by one or more of 0-9 and a-f.
IsHexLexeme(s) ==
    /\ Len(s) >= 3
    /\ s[1] = "0"
    /\ s[2] = "x"
    /\ \A i \in 3..Len(s) :
          s[i] \in { "0", "1", "2", "3", "4", "5", "6", "7", "8", "9",
                     "a", "b", "c", "d", "e", "f" }

IsNumericLexeme(s) == IsDecimalLexeme(s) \/ IsBinLexeme(s) \/ IsHexLexeme(s)

NumericKinds ==
    {"DecimalLiteral(false)", "DecimalLiteral(true)", "BinLiteral", "HexLiteral"}

\* C5: a well-formed numeric literal that is immediately followed by an
\* operator character (+, -, *, /, or the = that begins = and ==) is
\* finalized as a token of its own with the digits as its lexeme, the
\* operator character begins a token of its own, and the dispatch of the
\* operator character raises no error.
C5_OperatorTerminatesLiteral ==
    \A n \in 1..MaxLen :
        ( /\ Len(source) = n + 1
          /\ IsNumericLexeme(SubSeq(source, 1, n))
          /\ source[n + 1] \in OperatorChars ) =>
            /\ ~(Rejected /\ result.error.error_type \notin EndOfInputErrors)
            /\ Len(lexer.full_tokens) >= 1
            /\ lexer.full_tokens[1].value = SubSeq(source, 1, n)
            /\ lexer.full_tokens[1].token_type \in NumericKinds
            /\ \/ lexer.partial_token = <<source[n + 1]>>
               \/ /\ Len(lexer.full_tokens) >= 2
                  /\ lexer.full_tokens[2].value = <<source[n + 1]>>

\* The character before the end of a source text that lex accepts.
SelfCompleting == {"\n", "+", "-", "*", "(", ")", "{", "}", "=", "\""}

\* C6 as claimed: every source text that lex accepts and that is not empty
\* ends with a newline.
C6_TrailingNewlineRequired ==
    (Accepted /\ source # <<>>) => LastChar(source) = "\n"

\* C6 as amended: every source text that lex accepts and that is not empty
\* ends with a character that completes a token by itself: a newline, one of
\* + - *, a bracket, the second = of == or the closing quote of a string. A
\* source text that ends in any other character is rejected.
C6_AcceptedEndsCompleted ==
    /\ (Accepted /\ source # <<>>) =>
          LET ts == result.tokens
              n == Len(ts)
          IN  /\ LastChar(source) \in SelfCompleting
              /\ n >= 2
              /\ LastChar(source) = "=" =>
                    /\ ts[n - 1].token_type = "Operator(Equals)"
                    /\ ts[n - 1].value = <<"=", "=">>
              /\ LastChar(source) = "\"" =>
                    /\ ts[n - 1].token_type = "StringLiteral(false)"
                    /\ Len(ts[n - 1].value) >= 2
    /\ ( /\ pc = "returned"
         /\ source # <<>>
         /\ LastChar(source) \notin SelfCompleting ) => Rejected

\* Accepted source texts that do not end with a newline: one that ends with
\* an operator after a literal.
C6_Witness ==
    /\ Accepted
    /\ Len(source) >= 2
    /\ LastChar(source) = "+"
    /\ result.tokens[1].token_type \in NumericKinds

\* The column of the i-th character of s: the characters between it and the
\* newline before it (or the beginning of s).
RECURSIVE ColumnOf(_, _)
ColumnOf(s, i) ==
    IF i = 1 \/ s[i - 1] = "\n" THEN 0 ELSE 1 + ColumnOf(s, i - 1)

\* The line of the i-th character of s: one more than the newlines before it.
LineOf(s, i) == 1 + Cardinality({j \in 1..(i - 1) : s[j] = "\n"})

\* C7: a WrongHexCase error lies at the upper-case character that raised
\* it: the error is on that character's line and its columns, start_index
\* up to but not including end_index, include that character's column.
C7_WrongHexCaseAtCharacter ==
    (Rejected /\ result.error.error_type = "WrongHexCase") =>
        LET e == result.error
            at == Len(source)
        IN  /\ e.start_line = LineOf(source, at)
            /\ e.end_line = LineOf(source, at)
            /\ e.start_index <= ColumnOf(source, at)
            /\ ColumnOf(source, at) < e.end_index

\* The literal terminators: the characters of the string that
\* is_literal_terminator searches.
TerminatorSet ==
    { "+", "-", "*", "/", "!", "\"", "%", "^", "&", "(", ")", "{", "}",
      "[", "]", ".", ",", "|", ":", ";", " ", "\n" }

DecDigitSet == {"0", "1", "2", "3", "4", "5", "6", "7", "8", "9"}

LowerHexSet == DecDigitSet \cup {"a", "b", "c", "d", "e", "f"}

UpperHexSet == {"A", "B", "C", "D", "E", "F"}

\* The step extends the buffer by c: the end position moves one column on,
\* and the token list and the start position stay.
Extends(c) ==
    /\ pc' = "lexing"
    /\ lexer'.partial_token = Append(lexer.partial_token, c)
    /\ lexer'.full_tokens = lexer.full_tokens
    /\ StartOf(lexer') = StartOf(lexer)
    /\ EndOf(lexer') = <<lexer.end_line, lexer.end_index + 1>>

\* The step makes lex return an error of type e_type.
Raises(e_type) ==
    /\ pc' = "returned"
    /\ result'.status = "Err"
    /\ result'.error.error_type = e_type

\* The lexer between tokens, after the buffer was finalized as token t.
IdleAfter(t) ==
    [lexer EXCEPT !.full_tokens = Append(@, t),
                  !.partial_token = <<>>,
                  !.proposed_token_type = "None",
                  !.start_line = lexer.end_line,
                  !.start_index = lexer.end_index]

\* The step finalizes the buffer as one token of a kind in kinds, and then
\* does with c what consume_char does with it between tokens.
FinalizesAndRedispatches(kinds, c) ==
    LET n == Len(lexer.full_tokens)
    IN  /\ Len(lexer'.full_tokens) >= n + 1
        /\ SubSeq(lexer'.full_tokens, 1, n) = lexer.full_tokens
        /\ LET t == lexer'.full_tokens[n + 1]
               again == consume_char(IdleAfter(t), c)
           IN  /\ t.token_type \in kinds
               /\ t.value = lexer.partial_token
               /\ StartOf(t) = StartOf(lexer)
               /\ EndOf(t) = EndOf(lexer)
               /\ lexer' = again.lexer
               /\ again.status = "Ok" => pc' = "lexing"
               /\ again.status = "Err" =>
                     Raises(again.error.error_type) /\ result'.error = again.error
               /\ again.status # "Panic"

\* C8: the dispatch of a character c while a HexLiteral is in progress: c
\* in 0-9a-f extends the buffer; c in A-F raises WrongHexCase; a terminator
\* raises EmptyHexLiteral if the buffer ends in the leading x and otherwise
\* finalizes the HexLiteral token and re-dispatches c; any other c raises
\* MalformedHexLiteral.
C8_HexLiteralDispatch ==
    [][\A c \in Alphabet :
          (CharStep(c) /\ lexer.proposed_token_type = "HexLiteral") =>
             CASE c \in LowerHexSet ->
                     Extends(c) /\ lexer'.proposed_token_type = "HexLiteral"
               [] c \in UpperHexSet -> Raises("WrongHexCase")
               [] c \in TerminatorSet ->
                     IF LastChar(lexer.partial_token) = "x"
                     THEN Raises("EmptyHexLiteral")
                     ELSE FinalizesAndRedispatches({"HexLiteral"}, c)
               [] OTHER -> Raises("MalformedHexLiteral")
    ]_vars

\* A HexLiteral with digits was finalized by a terminator, and the
\* character after it was dispatched.
C8_Witness ==
    /\ Len(source) = MaxLen
    /\ Len(lexer.full_tokens) >= 2
    /\ lexer.full_tokens[1].token_type = "HexLiteral"
    /\ IsHexLexeme(lexer.full_tokens[1].value)

\* C9: the dispatch of a character c while a DecimalLiteral is in progress,
\* unless the buffer is 0 and c is b or x: a digit extends the buffer; a
\* point raises MultipleDecimalPoints if a point was consumed before (also
\* when the buffer ends in it) and otherwise extends the buffer and sets the
\* flag; any other terminator raises TrailingDPoint if the buffer ends in a
\* point and otherwise finalizes the token and re-dispatches c; any other c
\* raises MalformedDecLiteral.
C9_DecimalLiteralDispatch ==
    [][\A c \in Alphabet :
          ( /\ CharStep(c)
            /\ lexer.proposed_token_type \in
                  {"DecimalLiteral(false)", "DecimalLiteral(true)"}
            /\ ~(lexer.partial_token = <<"0">> /\ c \in {"b", "x"}) ) =>
             CASE c \in DecDigitSet ->
                     /\ Extends(c)
                     /\ lexer'.proposed_token_type = lexer.proposed_token_type
               [] c = "." ->
                     IF lexer.proposed_token_type = "DecimalLiteral(true)"
                     THEN Raises("MultipleDecimalPoints")
                     ELSE /\ Extends(c)
                          /\ lexer'.proposed_token_type = "DecimalLiteral(true)"
               [] c \in TerminatorSet \ {"."} ->
                     IF LastChar(lexer.partial_token) = "."
                     THEN Raises("TrailingDPoint")
                     ELSE FinalizesAndRedispatches(
                             {"DecimalLiteral(false)", "DecimalLiteral(true)"}, c)
               [] OTHER -> Raises("MalformedDecLiteral")
    ]_vars

\* A second point was dispatched right after the first one.
C9_Witness ==
    /\ Rejected
    /\ result.error.error_type = "MultipleDecimalPoints"
    /\ Len(source) >= 3
    /\ source[Len(source) - 1] = "."
    /\ source[Len(source)] = "."

\* C10: the dispatch of a character c while a BinLiteral is in progress: 0
\* or 1 extends the buffer; a terminator raises EmptyBinLiteral if the
\* buffer ends in the leading b and otherwise finalizes the BinLiteral token
\* and re-dispatches c; any other c, the digits 2-9 and the letters among
\* them, raises MalformedBinLiteral.
C10_BinLiteralDispatch ==
    [][\A c \in Alphabet :
          (CharStep(c) /\ lexer.proposed_token_type = "BinLiteral") =>
             CASE c \in {"0", "1"} ->
                     Extends(c) /\ lexer'.proposed_token_type = "BinLiteral"
               [] c \in TerminatorSet ->
                     IF LastChar(lexer.partial_token) = "b"
                     THEN Raises("EmptyBinLiteral")
                     ELSE FinalizesAndRedispatches({"BinLiteral"}, c)
               [] OTHER -> Raises("MalformedBinLiteral")
    ]_vars

\* A digit that is not a bit was dispatched after a bit.
C10_Witness ==
    /\ Rejected
    /\ result.error.error_type = "MalformedBinLiteral"
    /\ Len(source) = 4
    /\ SubSeq(source, 1, 2) = <<"0", "b">>
    /\ source[3] \in {"0", "1"}
    /\ source[4] \in DecDigitSet

StringKinds == {"StringLiteral(false)", "StringLiteral(true)"}

\* Character c occurs in the sequence s.
Occurs(c, s) == \E i \in 1..Len(s) : s[i] = c

\* C11: a single quote dispatched between tokens always raises WrongQuotes;
\* a single quote dispatched while a double-quoted string is in progress
\* raises nothing and extends the buffer, and the double quote that closes
\* a string holding a single quote finalizes it as a StringLiteral token, so
\* that lex accepts the source text that ends there.
C11_SingleQuote ==
    [][/\ (CharStep("'") /\ lexer.proposed_token_type = "None") =>
             /\ Raises("WrongQuotes")
             /\ result'.error.partial_token = <<"'">>
       /\ (CharStep("'") /\ lexer.proposed_token_type \in StringKinds) =>
             /\ Extends("'")
             /\ lexer'.proposed_token_type = lexer.proposed_token_type
       /\ ( /\ CharStep("\"")
            /\ lexer.proposed_token_type \in StringKinds
            /\ Occurs("'", lexer.partial_token) ) =>
             /\ pc' = "lexing"
             /\ lexer'.proposed_token_type = "None"
             /\ lexer'.full_tokens =
                   Append(lexer.full_tokens,
                          [ token_type |-> lexer.proposed_token_type,
                            value |-> Append(lexer.partial_token, "\""),
                            start_line |-> lexer.start_line,
                            end_line |-> lexer.end_line,
                            start_index |-> lexer.start_index,
                            end_index |-> lexer.end_index + 1 ])
       /\ ( /\ EndStep
            /\ lexer.full_tokens # <<>>
            /\ lexer.full_tokens[Len(lexer.full_tokens)].token_type \in StringKinds
            /\ lexer.proposed_token_type = "None" ) => result'.status = "Ok"
    ]_vars

\* lex accepted a double-quoted string that holds a single quote.
C11_Witness ==
    /\ Accepted
    /\ source = <<"\"", "'", "\"">>
    /\ result.tokens[1].token_type \in StringKinds
    /\ result.tokens[1].value = source

\* What lexing the lexeme alone gives, with a newline appended when the
\* lexeme alone leaves a token in progress at the end of the input.
RelexAlone(lexeme) ==
    LET alone == lex(lexeme)
    IN  IF alone.status = "Err" /\ alone.error.error_type = "MissingTrailingNewLine"
        THEN lex(Append(lexeme, "\n"))
        ELSE alone

\* C12: for every token of the output of an accepted input, lexing the
\* token's lexeme alone (with a newline appended when the lexeme alone would
\* leave a token in progress) succeeds, and the first token it gives has
\* the kind and the lexeme of the token.
C12_RelexIdempotent ==
    Accepted =>
        \A i \in 1..Len(result.tokens) :
            LET t == result.tokens[i]
                again == RelexAlone(t.value)
            IN  /\ again.status = "Ok"
                /\ again.tokens[1].token_type = t.token_type
                /\ again.tokens[1].value = t.value

\* An accepted input with a token that needs the newline to be lexed alone
\* (a literal with a decimal point) and one that does not.
C12_Witness ==
    /\ Accepted
    /\ \E i \in 1..Len(result.tokens) :
          /\ result.tokens[i].token_type = "DecimalLiteral(true)"
          /\ lex(result.tokens[i].value).status = "Err"
    /\ \E i \in 1..Len(result.tokens) :
          /\ result.tokens[i].token_type = "Operator(Plus)"
          /\ lex(result.tokens[i].value).status = "Ok"

\* Alphabetic characters: the ASCII letters and the letters outside ASCII.
AlphabeticSet ==
    { "a", "b", "c", "d", "e", "f", "g", "h", "i", "j", "k", "l", "m",
      "n", "o", "p", "q", "r", "s", "t", "u", "v", "w", "x", "y", "z",
      "A", "B", "C", "D", "E", "F", "G", "H", "I", "J", "K", "L", "M",
      "N", "O", "P", "Q", "R", "S", "T", "U", "V", "W", "X", "Y", "Z", "é" }

\* Every character of s from the i-th on is in the set.
AllFrom(s, i, set) == \A j \in i..Len(s) : s[j] \in set

\* The buffer buf belongs to the family of the tentative kind.
InFamily(kind, buf) ==
    CASE kind = "Whitespace" -> AllFrom(buf, 1, {" "})
      [] kind = "Identifier" -> AllFrom(buf, 1, AlphabeticSet)
      [] kind \in {"DecimalLiteral(false)", "DecimalLiteral(true)"} ->
            /\ AllFrom(buf, 1, DecDigitSet \cup {"."})
            /\ Cardinality({j \in 1..Len(buf) : buf[j] = "."}) <= 1
            /\ (kind = "DecimalLiteral(true)") <=> Occurs(".", buf)
      [] kind = "BinLiteral" ->
            /\ Len(buf) >= 2
            /\ SubSeq(buf, 1, 2) = <<"0", "b">>
            /\ AllFrom(buf, 3, {"0", "1"})
      [] kind = "HexLiteral" ->
            /\ Len(buf) >= 2
            /\ SubSeq(buf, 1, 2) = <<"0", "x">>
            /\ AllFrom(buf, 3, LowerHexSet)
      [] kind = "Operator(Divide)" -> buf = <<"/">>
      [] kind = "Equals" -> buf = <<"=">>
      [] kind = "LineComment" ->
            /\ Len(buf) >= 2
            /\ SubSeq(buf, 1, 2) = <<"/", "/">>
            /\ ~Occurs("\n", buf)
      [] kind \in StringKinds ->
            /\ Len(buf) >= 1
            /\ buf[1] = "\""
            /\ \A j \in 2..Len(buf) : buf[j] # "\""
      [] OTHER -> FALSE

\* C13: between two dispatches the buffer and the tentative kind agree: the
\* kind is None exactly when the buffer is empty, and otherwise every
\* character of the buffer belongs to the family of the kind.
C13_BufferMatchesKind ==
    pc = "lexing" =>
        /\ lexer.proposed_token_type = "None" <=> lexer.partial_token = <<>>
        /\ lexer.proposed_token_type # "None" =>
              InFamily(lexer.proposed_token_type, lexer.partial_token)

\* A buffer of several characters whose kind was switched on the way.
C13_Witness ==
    /\ pc = "lexing"
    /\ lexer.proposed_token_type = "HexLiteral"
    /\ Len(lexer.partial_token) = MaxLen

DecimalKinds == {"DecimalLiteral(false)", "DecimalLiteral(true)"}

\* The kind of the token that lex gives for the literal 5.
KindOfFive == lex(<<"5", "\n">>).tokens[1].token_type

\* C14 as claimed: the kind stored in a finalized DecimalLiteral token does
\* not depend on the decimal point: it is the kind of the token for 5; and
\* the kind of a finalized StringLiteral token does not depend on the flag.
C14_FlagResolvedAtFinalize ==
    \A i \in 1..Len(lexer.full_tokens) :
        LET t == lexer.full_tokens[i]
        IN  /\ t.token_type \in DecimalKinds => t.token_type = KindOfFive
            /\ t.token_type \in StringKinds => t.token_type = "StringLiteral(false)"

\* C14 as amended: a finalized token stores the tentative kind with its
\* flag: the kind of a DecimalLiteral token is DecimalLiteral(true) when
\* its lexeme holds a decimal point and DecimalLiteral(false) when it does
\* not, so the tokens for 5 and 5.5 have different kinds; the kind of a
\* StringLiteral token is always StringLiteral(false).
C14_FlagKeptAtFinalize ==
    /\ KindOfFive = "DecimalLiteral(false)"
    /\ \A i \in 1..Len(lexer.full_tokens) :
          LET t == lexer.full_tokens[i]
          IN  /\ t.token_type \in DecimalKinds =>
                    t.token_type = IF Occurs(".", t.value)
                                   THEN "DecimalLiteral(true)"
                                   ELSE "DecimalLiteral(false)"
              /\ t.token_type \in StringKinds => t.token_type = "StringLiteral(false)"

\* A finalized literal with a decimal point, whose kind is not the kind of
\* the token for 5.
C14_Witness ==
    /\ Len(lexer.full_tokens) >= 1
    /\ lexer.full_tokens[1].token_type = "DecimalLiteral(true)"
    /\ Occurs(".", lexer.full_tokens[1].value)
    /\ lexer.full_tokens[1].token_type # KindOfFive

\* The letters that start an Identifier between tokens.
LetterSet == AlphabeticSet \ {"é"}

KindsOf(tokens) == [i \in 1..Len(tokens) |-> tokens[i].token_type]

\* The source text is a run of letters followed by a newline, and it was
\* lexed to Identifier(whole run), Newline and, once lex has returned,
\* EndOfFile.
LettersThenNewline ==
    LET n == Len(source)
        run == SubSeq(source, 1, n - 1)
    IN  (n >= 2 /\ source[n] = "\n" /\ AllFrom(run, 1, LetterSet)) =>
            /\ pc = "lexing" =>
                  /\ lexer.proposed_token_type = "None"
                  /\ KindsOf(lexer.full_tokens) = <<"Identifier", "Newline">>
                  /\ lexer.full_tokens[1].value = run
            /\ pc # "lexing" =>
                  /\ Accepted
                  /\ KindsOf(result.tokens) = <<"Identifier", "Newline", "EndOfFile">>
                  /\ result.tokens[1].value = run

\* C15: a letter dispatched between tokens starts an Identifier; while an
\* Identifier is in progress an alphabetic character c extends the buffer
\* and any other c finalizes the Identifier token and is re-dispatched
\* between tokens; and a run of letters followed by a newline lexes to
\* exactly Identifier(whole run), Newline, EndOfFile.
C15_IdentifierDispatch ==
    [][/\ \A c \in Alphabet :
             /\ (CharStep(c) /\ lexer.proposed_token_type = "None"
                             /\ c \in LetterSet) =>
                    Extends(c) /\ lexer'.proposed_token_type = "Identifier"
             /\ (CharStep(c) /\ lexer.proposed_token_type = "Identifier") =>
                    IF c \in AlphabeticSet
                    THEN Extends(c) /\ lexer'.proposed_token_type = "Identifier"
                    ELSE FinalizesAndRedispatches({"Identifier"}, c)
       /\ LettersThenNewline'
    ]_vars

\* lex returned Identifier, Newline, EndOfFile for a run of at least two
\* letters followed by a newline.
C15_Witness ==
    /\ Accepted
    /\ Len(source) >= 3
    /\ source[Len(source)] = "\n"
    /\ AllFrom(SubSeq(source, 1, Len(source) - 1), 1, LetterSet)
    /\ KindsOf(result.tokens) = <<"Identifier", "Newline", "EndOfFile">>

\* C16: the dispatch of one input character is at most two nested calls of
\* consume_char: the outer call, and, only after the outer call finalized a
\* token, one inner call on the same character, which does not call
\* consume_char again.
C16_RedispatchBounded ==
    /\ depth \in 0..2
    /\ source # <<>> => depth >= 1
    /\ depth = 2 => Len(lexer.full_tokens) >= 1

\* A character was dispatched by two nested calls of consume_char, the
\* inner one leaving it in the buffer.
C16_Witness ==
    /\ depth = 2
    /\ pc = "lexing"
    /\ lexer.partial_token = <<source[Len(source)]>>

\* The kind that the prefix character c of a literal switches to.
PrefixKind(c) == IF c = "b" THEN "BinLiteral" ELSE "HexLiteral"

\* C17: the tentative kind changes to BinLiteral or HexLiteral only in the
\* dispatch of b or x to a DecimalLiteral whose buffer is exactly 0, which
\* extends the buffer; b and x dispatched to a DecimalLiteral with any other
\* buffer raise MalformedDecLiteral; b and x dispatched between tokens start
\* an Identifier.
C17_PrefixSwitch ==
    [][\A c \in Alphabet : CharStep(c) =>
          /\ \A kind \in {"BinLiteral", "HexLiteral"} :
                (lexer.proposed_token_type # kind
                    /\ lexer'.proposed_token_type = kind) =>
                    /\ lexer.proposed_token_type \in DecimalKinds
                    /\ lexer.partial_token = <<"0">>
                    /\ c \in {"b", "x"}
                    /\ kind = PrefixKind(c)
          /\ (lexer.proposed_token_type \in DecimalKinds /\ c \in {"b", "x"}) =>
                IF lexer.partial_token = <<"0">>
                THEN Extends(c) /\ lexer'.proposed_token_type = PrefixKind(c)
                ELSE Raises("MalformedDecLiteral")
          /\ (lexer.proposed_token_type = "None" /\ c \in {"b", "x"}) =>
                Extends(c) /\ lexer'.proposed_token_type = "Identifier"
    ]_vars

\* b or x was dispatched to a DecimalLiteral whose buffer starts with 0 and
\* has a second character, and raised MalformedDecLiteral.
C17_Witness ==
    /\ Rejected
    /\ result.error.error_type = "MalformedDecLiteral"
    /\ Len(source) = 3
    /\ source[1] = "0"
    /\ source[3] \in {"b", "x"}

\* Every LineComment token of tokens has a lexeme that starts with // and
\* holds no newline, and no token other than a Newline comes after it.
CommentsWellFormed(tokens) ==
    \A i \in 1..Len(tokens) :
        tokens[i].token_type = "LineComment" =>
            /\ Len(tokens[i].value) >= 2
            /\ SubSeq(tokens[i].value, 1, 2) = <<"/", "/">>
            /\ ~Occurs("\n", tokens[i].value)
            /\ i < Len(tokens) => tokens[i + 1].token_type = "Newline"

\* The tokens are well formed with respect to comments, and in an accepted
\* output every LineComment token has a Newline token right after it.
CommentsEndLines ==
    /\ CommentsWellFormed(lexer.full_tokens)
    /\ Accepted =>
          /\ CommentsWellFormed(result.tokens)
          /\ \A i \in 1..Len(result.tokens) :
                result.tokens[i].token_type = "LineComment" =>
                    /\ i < Len(result.tokens)
                    /\ result.tokens[i + 1].token_type = "Newline"

\* C18: a / dispatched to a tentative Divide extends the buffer to // and
\* makes it a LineComment; a LineComment extends on every character but the
\* newline; the newline finalizes the LineComment token and becomes a
\* Newline token of its own; so every LineComment token of an accepted
\* output has a lexeme that starts with //, holds no newline, and has a
\* Newline token right after it.
C18_LineComment ==
    [][/\ \A c \in Alphabet : CharStep(c) =>
             /\ (lexer.proposed_token_type = "Operator(Divide)" /\ c = "/") =>
                   /\ Extends(c)
                   /\ lexer'.proposed_token_type = "LineComment"
                   /\ lexer'.partial_token = <<"/", "/">>
             /\ lexer.proposed_token_type = "LineComment" =>
                   IF c # "\n"
                   THEN Extends(c) /\ lexer'.proposed_token_type = "LineComment"
                   ELSE /\ FinalizesAndRedispatches({"LineComment"}, c)
                        /\ pc' = "lexing"
                        /\ lexer'.proposed_token_type = "None"
                        /\ Len(lexer'.full_tokens) = Len(lexer.full_tokens) + 2
                        /\ lexer'.full_tokens[Len(lexer'.full_tokens)].token_type
                              = "Newline"
                        /\ lexer'.full_tokens[Len(lexer'.full_tokens)].value
                              = <<"\n">>
       /\ CommentsEndLines'
    ]_vars

\* lex accepted a source text with a line comment that has a character
\* after the slashes.
C18_Witness ==
    /\ Accepted
    /\ \E i \in 1..Len(result.tokens) :
          /\ result.tokens[i].token_type = "LineComment"
          /\ Len(result.tokens[i].value) >= 3

\* Every Operator(Equals) token of tokens has lexeme == and every Equals
\* token has lexeme =.
EqualsLexemes(tokens) ==
    \A i \in 1..Len(tokens) :
        /\ tokens[i].token_type = "Operator(Equals)" =>
              tokens[i].value = <<"=", "=">>
        /\ tokens[i].token_type = "Equals" => tokens[i].value = <<"=">>

\* The source text === was lexed to the token == and a tentative =.
TripleEquals ==
    source = <<"=", "=", "=">> =>
        /\ pc = "lexing" =>
              /\ KindsOf(lexer.full_tokens) = <<"Operator(Equals)">>
              /\ lexer.full_tokens[1].value = <<"=", "=">>
              /\ lexer.proposed_token_type = "Equals"
              /\ lexer.partial_token = <<"=">>
        /\ pc # "lexing" => Rejected /\ result.error.error_type = "MissingTrailingNewLine"

\* C19: a = dispatched between tokens starts a tentative Equals; a second =
\* finalizes one Operator(Equals) token with lexeme == and leaves the lexer
\* between tokens; any other character finalizes an Equals token with
\* lexeme = and is re-dispatched; every Operator(Equals) token has lexeme
\* == and every Equals token lexeme =; === is lexed to == and a tentative =.
C19_EqualsDispatch ==
    [][/\ \A c \in Alphabet : CharStep(c) =>
             /\ (lexer.proposed_token_type = "None" /\ c = "=") =>
                   Extends(c) /\ lexer'.proposed_token_type = "Equals"
             /\ lexer.proposed_token_type = "Equals" =>
                   /\ lexer.partial_token = <<"=">>
                   /\ IF c = "="
                      THEN /\ pc' = "lexing"
                           /\ lexer'.proposed_token_type = "None"
                           /\ lexer'.partial_token = <<>>
                           /\ StartOf(lexer') = EndOf(lexer')
                           /\ lexer'.full_tokens =
                                 Append(lexer.full_tokens,
                                        Token("Operator(Equals)", <<"=", "=">>,
                                              lexer.start_line, lexer.end_line,
                                              lexer.start_index,
                                              lexer.end_index + 1))
                      ELSE FinalizesAndRedispatches({"Equals"}, c)
       /\ EqualsLexemes(lexer'.full_tokens)
       /\ EqualsLexemes(result'.tokens)
       /\ TripleEquals'
    ]_vars

\* The third = of === was dispatched.
C19_Witness ==
    /\ source = <<"=", "=", "=">>
    /\ pc = "lexing"
    /\ Len(lexer.full_tokens) = 1
    /\ lexer.proposed_token_type = "Equals"

\* The tentative kinds for which consume_char panics.
PanicKinds ==
    { "LeftParen", "RightParen", "LeftBrace", "RightBrace", "Newline",
      "EndOfFile", "Operator(Plus)", "Operator(Minus)", "Operator(Multiply)",
      "Operator(Equals)" }

\* C20: no panic is reachable on any source text: consume_char is never
\* entered with a tentative kind of LeftParen, RightParen, LeftBrace,
\* RightBrace, Newline, EndOfFile or Operator(Plus|Minus|Multiply|Equals),
\* and push_token is never called with the tentative kind None.
C20_NoPanic ==
    /\ pc # "panicked"
    /\ ~lexer.panicked
    /\ lexer.proposed_token_type \notin PanicKinds
    /\ lexer.proposed_token_type \in TokenType \cup {"None"}

\* lex rejected a source text after it had finalized two tokens of kinds
\* that are never tentative between two characters.
C20_Witness ==
    /\ Rejected
    /\ Len(lexer.full_tokens) >= 2
    /\ lexer.full_tokens[1].token_type \in PanicKinds
    /\ lexer.full_tokens[2].token_type \in PanicKinds

\* The step pushes c to the buffer, moving the end position past c, and
\* finalizes nothing.
ExtendsAcrossLines(c) ==
    /\ pc' = "lexing"
    /\ lexer'.partial_token = Append(lexer.partial_token, c)
    /\ lexer'.full_tokens = lexer.full_tokens
    /\ StartOf(lexer') = StartOf(lexer)
    /\ EndOf(lexer') = IF c = "\n"
                       THEN <<lexer.end_line + 1, 0>>
                       ELSE <<lexer.end_line, lexer.end_index + 1>>

\* C21: the tentative kind is never StringLiteral(true); while a string is
\* in progress a double quote, whatever is before it, extends the buffer
\* and finalizes it as one StringLiteral(false) token, and every other
\* character, the newline and the backslash included, extends the buffer
\* and leaves the string in progress.
C21_EscapeFlagNeverSet ==
    [][/\ lexer'.proposed_token_type # "StringLiteral(true)"
       /\ \A c \in Alphabet :
             (CharStep(c) /\ lexer.proposed_token_type \in StringKinds) =>
                IF c = "\""
                THEN /\ pc' = "lexing"
                     /\ lexer'.proposed_token_type = "None"
                     /\ lexer'.partial_token = <<>>
                     /\ StartOf(lexer') = EndOf(lexer')
                     /\ lexer'.full_tokens =
                           Append(lexer.full_tokens,
                                  Token("StringLiteral(false)",
                                        Append(lexer.partial_token, c),
                                        lexer.start_line, lexer.end_line,
                                        lexer.start_index, lexer.end_index + 1))
                ELSE /\ ExtendsAcrossLines(c)
                     /\ lexer'.proposed_token_type = "StringLiteral(false)"
    ]_vars

\* A double quote that follows a backslash closed the string.
C21_Witness ==
    /\ source = <<"\"", "\\", "\"">>
    /\ pc = "lexing"
    /\ lexer.proposed_token_type = "None"
    /\ Len(lexer.full_tokens) = 1
    /\ lexer.full_tokens[1].value = source

\* The places of the newlines in the sequence s.
NewlinesOf(s) == {j \in 1..Len(s) : s[j] = "\n"}

\* The number of characters of s after its last newline.
AfterLastNewline(s) ==
    Len(s) - (CHOOSE j \in NewlinesOf(s) : \A k \in NewlinesOf(s) : k <= j)

\* The span of token t is the span of its lexeme.
SpanMatchesLexeme(t) ==
    /\ t.end_line - t.start_line = Cardinality(NewlinesOf(t.value))
    /\ IF NewlinesOf(t.value) = {}
       THEN t.end_index - t.start_index = Len(t.value)
       ELSE t.end_index = AfterLastNewline(t.value)
    /\ t.end_line # t.start_line =>
          t.token_type \in {"Newline", "StringLiteral(false)", "StringLiteral(true)"}

\* C22: for every finalized token, end_line - start_line is the number of
\* newlines in its lexeme; if the lexeme has no newline, end_index -
\* start_index is its length, and otherwise end_index is the number of
\* characters after its last newline; only Newline and StringLiteral
\* tokens end on another line than they start on.
C22_SpansFollowNewlines ==
    /\ \A i \in 1..Len(lexer.full_tokens) : SpanMatchesLexeme(lexer.full_tokens[i])
    /\ \A i \in 1..Len(result.tokens) : SpanMatchesLexeme(result.tokens[i])

\* A string with a newline and a character after it was finalized.
C22_Witness ==
    \E i \in 1..Len(lexer.full_tokens) :
        LET t == lexer.full_tokens[i]
        IN  /\ t.token_type \in StringKinds
            /\ t.end_line = t.start_line + 1
            /\ t.end_index = 2

\* What push_char changes in the lexer self and what it leaves alone.
PushCharFrame(self, c) ==
    \E pushed \in {push_char(self, c)} :
        /\ pushed.partial_token = Append(self.partial_token, c)
        /\ EndOf(pushed) = IF c = "\n"
                           THEN <<self.end_line + 1, 0>>
                           ELSE <<self.end_line, self.end_index + 1>>
        /\ pushed.full_tokens = self.full_tokens
        /\ StartOf(pushed) = StartOf(self)
        /\ pushed.proposed_token_type = self.proposed_token_type
        /\ pushed.current_char = self.current_char
        /\ pushed.panicked = self.panicked

\* What push_token changes in the lexer self and what it leaves alone.
PushTokenFrame(self) ==
    \E pushed \in {push_token(self)}, n \in {Len(self.full_tokens)} :
        /\ Len(pushed.full_tokens) = n + 1
        /\ SubSeq(pushed.full_tokens, 1, n) = self.full_tokens
        /\ pushed.full_tokens[n + 1] =
              Token(self.proposed_token_type, self.partial_token,
                    self.start_line, self.end_line,
                    self.start_index, self.end_index)
        /\ StartOf(pushed) = EndOf(self)
        /\ EndOf(pushed) = EndOf(self)
        /\ pushed.partial_token = <<>>
        /\ pushed.proposed_token_type = "None"
        /\ pushed.current_char = self.current_char
        /\ pushed.panicked = self.panicked

\* The characters that push_char is applied to: the newline, and a digit, a
\* letter, a quote and a space for the characters that are not the newline.
PushedChars == {"\n", "0", "g", "\"", " "}

\* C23: push_char applied to a lexer that lex can reach appends the
\* character to the buffer and moves the end position, and leaves the token
\* list, the start position and the tentative kind alone; push_token
\* applied to it while a token is in progress appends one token made of the
\* buffer, the tentative kind and the span, keeps every earlier token, sets
\* the start position to the end position, empties the buffer, clears the
\* tentative kind and leaves the end position alone.
C23_PrimitiveFrames ==
    /\ \A c \in PushedChars : PushCharFrame(lexer, c)
    /\ lexer.proposed_token_type # "None" => PushTokenFrame(lexer)

\* A token is in progress after two tokens were finalized.
C23_Witness ==
    /\ pc = "lexing"
    /\ Len(lexer.full_tokens) = 2
    /\ lexer.proposed_token_type # "None"
    /\ Len(lexer.partial_token) = 2

RECURSIVE LexemesOf(_)
\* The lexemes of the tokens, one after the other.
LexemesOf(tokens) ==
    IF tokens = <<>>
    THEN <<>>
    ELSE tokens[1].value \o LexemesOf(Tail(tokens))

\* C24: after every character that was dispatched without an error, the
\* lexemes of the finalized tokens followed by the buffer are the source
\* text read so far; and the lexemes of the tokens of an accepted output,
\* the empty one of EndOfFile included, are the source text.
C24_LosslessCoverage ==
    /\ pc = "lexing" => LexemesOf(lexer.full_tokens) \o lexer.partial_token = source
    /\ Accepted => LexemesOf(result.tokens) = source

\* lex accepted a source text of four characters in at least four tokens.
C24_Witness ==
    /\ Accepted
    /\ Len(source) = 4
    /\ Len(result.tokens) >= 4
    /\ result.tokens[Len(result.tokens)].value = <<>>

\* The lexeme of token t is a literal of the kind of t.
NumericWellFormed(t) ==
    /\ t.token_type \in DecimalKinds => IsDecimalLexeme(t.value)
    /\ t.token_type = "BinLiteral" => IsBinLexeme(t.value)
    /\ t.token_type = "HexLiteral" => IsHexLexeme(t.value)

\* C25: every finalized numeric token is well formed: the lexeme of a
\* DecimalLiteral is one or more digits, optionally followed by one point
\* and one or more digits; the lexeme of a BinLiteral is 0b and one or more
\* of 0 and 1; the lexeme of a HexLiteral is 0x and one or more of 0-9a-f.
C25_NumericTokensWellFormed ==
    /\ \A i \in 1..Len(lexer.full_tokens) : NumericWellFormed(lexer.full_tokens[i])
    /\ \A i \in 1..Len(result.tokens) : NumericWellFormed(result.tokens[i])

\* A BinLiteral with one bit was finalized by a terminator.
C25_Witness ==
    /\ Len(lexer.full_tokens) >= 1
    /\ lexer.full_tokens[1].token_type = "BinLiteral"
    /\ Len(lexer.full_tokens[1].value) = 3
    /\ Len(source) = 4

\* The number of newlines of the source text read so far. The source text
\* that the error keeps is this text and what follows it, which has no
\* fewer lines.
NewlinesRead == Cardinality(NewlinesOf(source))

\* C26: rendering an error that lex returned does not fail: if the error
\* starts and ends on one line, the source text has a line of that number
\* and the end column is not before the start column; otherwise the end
\* line is after the start line.
C26_RenderingNeverFails ==
    Rejected =>
        /\ ~fmt_panics(result.error, source)
        /\ result.error.start_line >= 1
        /\ IF result.error.start_line = result.error.end_line
           THEN /\ result.error.start_line =
                      NewlinesRead + (IF source[Len(source)] = "\n" THEN 0 ELSE 1)
                /\ result.error.end_index >= result.error.start_index
           ELSE result.error.end_line > result.error.start_line

\* A newline on the second line raised an error that starts and ends on
\* the second line.
C26_Witness ==
    /\ Rejected
    /\ result.error.start_line = 2
    /\ result.error.end_line = 2
    /\ source[Len(source)] = "\n"
    /\ source[1] = "\n"

\* The i-th of the tokens, whose lexemes make up the text, is a run of one
\* or more characters of the set, with no character of the set right
\* before it or right after it in the text.
MaximalRun(tokens, i, text, set) ==
    LET first == Len(LexemesOf(SubSeq(tokens, 1, i - 1))) + 1
        last == first + Len(tokens[i].value) - 1
    IN  /\ Len(tokens[i].value) >= 1
        /\ AllFrom(tokens[i].value, 1, set)
        /\ SubSeq(text, first, last) = tokens[i].value
        /\ first > 1 => text[first - 1] \notin set
        /\ last < Len(text) => text[last + 1] \notin set

\* C27: in the output of an accepted input no Whitespace token is next to
\* a Whitespace token and no Identifier token next to an Identifier token;
\* every Whitespace token is a maximal run of spaces of the source text and
\* every Identifier token a maximal run of alphabetic characters.
C27_MaximalMunch ==
    Accepted =>
        \A i \in 1..Len(result.tokens) :
            /\ result.tokens[i].token_type = "Whitespace" =>
                  /\ MaximalRun(result.tokens, i, source, {" "})
                  /\ i > 1 => result.tokens[i - 1].token_type # "Whitespace"
            /\ result.tokens[i].token_type = "Identifier" =>
                  /\ MaximalRun(result.tokens, i, source, AlphabeticSet)
                  /\ i > 1 => result.tokens[i - 1].token_type # "Identifier"

\* lex accepted two spaces and an identifier after them.
C27_Witness ==
    /\ Accepted
    /\ Len(result.tokens) >= 2
    /\ result.tokens[1].token_type = "Whitespace"
    /\ Len(result.tokens[1].value) = 2
    /\ result.tokens[2].token_type = "Identifier"

\* The buffer that the character of the step was dispatched to: the buffer
\* before the step, or the empty one if the step finalized it first.
BufferAtDispatch ==
    IF Len(lexer'.full_tokens) = Len(lexer.full_tokens)
    THEN lexer.partial_token
    ELSE <<>>

\* The start of the token in progress when the character of the step was
\* dispatched.
StartAtDispatch ==
    IF Len(lexer'.full_tokens) = Len(lexer.full_tokens)
    THEN StartOf(lexer)
    ELSE EndOf(lexer)

\* C28: an error raised in the dispatch of a character starts at the start
\* of the token in progress and ends at the position reached before the
\* character; its lexeme is the buffer and the character, but for
\* EmptyHexLiteral the buffer alone; the errors raised at the end of the
\* input have the span of the token in progress and the buffer alone.
C28_ErrorSpanAndLexeme ==
    [][/\ \A c \in Alphabet :
             (CharStep(c) /\ pc' = "returned") =>
                /\ result'.status = "Err"
                /\ StartOf(result'.error) = StartAtDispatch
                /\ EndOf(result'.error) = EndOf(lexer)
                /\ result'.error.partial_token =
                      IF result'.error.error_type = "EmptyHexLiteral"
                      THEN BufferAtDispatch
                      ELSE Append(BufferAtDispatch, c)
                /\ result'.error.error_type \notin EndOfInputErrors
       /\ (EndStep /\ result'.status = "Err") =>
             /\ result'.error.error_type \in EndOfInputErrors
             /\ StartOf(result'.error) = StartOf(lexer)
             /\ EndOf(result'.error) = EndOf(lexer)
             /\ result'.error.partial_token = lexer.partial_token
    ]_vars

\* A terminator after 0x raised EmptyHexLiteral.
C28_Witness ==
    /\ Rejected
    /\ result.error.error_type = "EmptyHexLiteral"
    /\ result.error.partial_token = <<"0", "x">>
    /\ Len(source) = 3

====
